---- MODULE Spec2Model ----
(***************************************************************************)
(* Model of perceval/backends/github.py: the GitHub backend (fetch and     *)
(* fetch_from_cache generators), the GitHubClient pagination walk          *)
(* (get_issues) and the GitHubCommand driver (__init__ and run).           *)
(*                                                                         *)
(* Python generators are lazy: creating one runs nothing, and each pull by *)
(* the consumer runs the generator up to its next yield.  The program is   *)
(* single threaded, so the model is one sequential process whose position  *)
(* is pc; one action per block of code between two suspension points.      *)
(*                                                                         *)
(* Backend (the base class holding cache and cache_queue) and Cache (the   *)
(* Store) are imported from modules outside this file; their operations    *)
(* are modelled from their documented contract.                            *)
(***************************************************************************)
EXTENDS Integers, Sequences, FiniteSets, TLC

\* ------------------------------------------------------------------ bounds
\* Longest chain of responses the server offers to one pagination walk.
MaxPages == 2
\* Number of generator calls (fetch / fetch_from_cache) in one behaviour.
MaxCalls == 3
\* Capacity of the Store, in Pages: a fetch is started only when the Store
\* has room for a whole walk.
MaxStore == 3

\* ------------------------------------------------------------ data: pages
\* Raw response bodies (r.text).  A body is opaque text to the client.
EmptyText == ""
EmptyArray == "[]"
TwoIssues == "[{id:1},{id:2}]"
ErrorBody == "{message:Not Found}"
Malformed == "<html>"

Bodies == {EmptyText, EmptyArray, TwoIssues, ErrorBody, Malformed}

\* Python's None for `issues` (line 161).
None == "None"

\* The HTTP status the server sends with a body: the error payload is what
\* a non-success response carries.  The client never reads the status.
StatusOf(body) == IF body = ErrorBody THEN 404 ELSE 200

\* Truthiness of `issues` in `while issues:`: None and the empty string are
\* false, every other text is true.
Truthy(text) == text # None /\ text # EmptyText

\* json.loads(raw_issues) followed by `for issue in issues`: a JSON array
\* iterates over its elements, a JSON object (the error payload) over its
\* keys, and text that is not JSON raises ValueError.
Loads(text) ==
    CASE text = EmptyArray -> [ok |-> TRUE, items |-> <<>>]
      [] text = TwoIssues -> [ok |-> TRUE, items |-> <<"issue1", "issue2">>]
      [] text = ErrorBody -> [ok |-> TRUE, items |-> <<"message">>]
      [] OTHER -> [ok |-> FALSE, items |-> <<>>]

\* ------------------------------------------------------------- data: URLs
\* A URL is its list of query parameters, in order; the first one follows
\* '?', every later one follows '&'.
Param(k, v) == [k |-> k, v |-> v]

\* GitHubClient._get_issues_url: per_page=30, state=all, sort=updated,
\* direction=asc, and since=<isoformat> when a start date is given.
IssuesUrl(startdate) ==
    LET url_params == << Param("per_page", "30"), Param("state", "all"),
                         Param("sort", "updated"), Param("direction", "asc") >>
    IN  IF startdate # None
          THEN Append(url_params, Param("since", startdate))
          ELSE url_params

\* The token the client was built with (GitHubClient.__init__).
auth_token == "t0k3n"

\* headers={'Authorization': 'token ' + self.auth_token}, lines 147 and 167.
Authorization(token) ==
    [h \in {"Authorization"} |-> [scheme |-> "token", credentials |-> token]]

\* from_date values a caller passes (None: no lower bound).
FromDates == {None, "2015-01-01T00:00:00"}

\* The "next" link a server may send: it carries a server-assigned opaque
\* parameter besides the page number.
NextLinks == { << Param("per_page", "30"), Param("page", "2"),
                  Param("cursor", "Y3Vyc29y") >> }

\* "last" links a server may send: one whose page number follows '&page=',
\* and one whose only parameter is the page number (it follows '?').
LastLinks == { << Param("per_page", "30"), Param("page", "2") >>,
               << Param("page", "2") >> }

\* int(text) for the page numbers above.
IntOf(text) == CASE text = "2" -> 2 [] text = "30" -> 30 [] OTHER -> 0

\* Positions of the text '&page=' in a URL: a parameter named page that is
\* not the first one.
PageParams(url) == { i \in 2..Len(url) : url[i].k = "page" }

\* last_url.split('&page=')[1] raises IndexError when '&page=' is absent.
HasPageParam(url) == PageParams(url) # {}

\* int(last_url.split('&page=')[1].split('&')[0]): the value of the first
\* '&page=' parameter.
LastPage(url) ==
    LET i == CHOOSE n \in PageParams(url) : \A m \in PageParams(url) : n <= m
    IN  IntOf(url[i].v)

\* -------------------------------------------------------- data: responses
RateHeader == "X-RateLimit-Remaining"

\* The empty mapping (no header, no link).
Nothing == [x \in {} |-> <<>>]

HeaderSets == { Nothing, [h \in {RateHeader} |-> "59"] }

LinkSets ==
    { l \in UNION { [S -> NextLinks \cup LastLinks] : S \in SUBSET {"next", "last"} } :
        /\ ("next" \in DOMAIN l => l["next"] \in NextLinks)
        /\ ("last" \in DOMAIN l => l["last"] \in LastLinks) }

\* The URL of the next request rebuilt from the page number of the "next"
\* link: the server's other parameters are lost.
UrlNextRebuilt(resp) ==
    LET link == resp.links["next"]
        n == CHOOSE i \in 1..Len(link) : link[i].k = "page"
    IN  << Param("per_page", "30"), Param("page", link[n].v) >>

\* Line 164: url_next = r.links['next']['url'].
UrlNext(resp) == resp.links["next"]

\* What requests.get returns: r.text, r.headers, r.links.
AllResponses == [text : Bodies, headers : HeaderSets, links : LinkSets]

\* The responses the server may give to request number n of a walk: the
\* chain is finite, its MaxPages-th response carries no "next" link.
Responses(n) ==
    { resp \in AllResponses : n >= MaxPages => "next" \notin DOMAIN resp.links }

\* No response held (before the first request, after the generator's frame
\* is gone).
NoResponse == [text |-> None, headers |-> Nothing, links |-> Nothing]

\* ------------------------------------------------------ exception classes
\* requests.get raises a RequestException (ConnectionError, Timeout) on a
\* transport failure; outfile.write raises IOError; json.loads raises
\* ValueError; the diagnostics raise KeyError, IndexError and TypeError.
NoExc == "none"

\* `except IOError` matching nothing: every exception falls through to
\* `except Exception`.
NeverIOError(e) == FALSE

\* `except IOError` (line 225): IOError itself and its subclasses.
\* requests.exceptions.RequestException is declared as a subclass of IOError.
IsIOError(e) == e \in {"IOError", "RequestException"}

\* ------------------------------------------------- Cache (the Store) ops
\* The Store on disk: the log of Cache Entries and the backup snapshot.
\* store appends the given Pages in order; retrieve replays the log in
\* append order; backup snapshots the log; recover restores the snapshot
\* over the log; clean discards the log.
CacheStore(d, queued) == [d EXCEPT !.items = @ \o queued]

CacheRetrieve(d) == d.items

CacheBackup(d) == [d EXCEPT !.backup = d.items]

CacheRecover(d) == [d EXCEPT !.items = d.backup]

CacheClean(d) == [d EXCEPT !.items = <<>>]

\* Backend's Cache Queue: enqueue appends one Page to the buffer, purge
\* discards the buffer.
PushQueue(q, item) == Append(q, item)

PurgeQueue(q) == <<>>

\* Backend's flush: with a cache, the buffered Pages are appended to the
\* Store in buffer order; without one there is no Store to write.
FlushQueue(d, q, hasCache) == IF hasCache THEN CacheStore(d, q) ELSE d

\* ------------------------------------------------------------------ state
VARIABLES
    disk,         \* the Store: [items, backup]
    cache,        \* backend.cache is set (a cache was configured)
    cache_queue,  \* backend.cache_queue: Pages pushed and not yet flushed
    driver,       \* who drives the backend: "none", "lib" (a caller), "cmd"
    fetch_cache,  \* parsed_args.fetch_cache of the command
    from_date,    \* the from_date of the fetch call
    gen,          \* the generator of the current call: "none", "fetch", "replay"
    pc,           \* position of the (single) thread of control
    result,       \* how the call stands: "none", "running", "done", "error", "abandoned"
    exc,          \* class of the exception raised in the call, NoExc if none
    page,         \* get_issues: page
    last_page,    \* get_issues: last_page, <<>> for None, <<n>> for the int n
    r,            \* get_issues: r, the response held (see Held)
    issues,       \* get_issues: issues
    raw_issues,   \* fetch / fetch_from_cache: raw_issues
    items,        \* fetch / fetch_from_cache: issues (the decoded list)
    idx,          \* number of items of `items` already yielded
    ridx,         \* fetch_from_cache: number of Pages taken from retrieve()
    out,          \* history: items yielded to the consumer in this call
    pages,        \* history: Pages yielded by get_issues in this call
    bodies,       \* history: bodies of the responses received in this call
    urls,         \* history: URLs requested in this call
    auths,        \* history: headers sent with each request of this call
    disk0,        \* history: the Store when the call started
    queue0,       \* history: cache_queue when the call started
    recovered,    \* history: cache.recover() was invoked in this run
    retrieved,    \* history: cache.retrieve() was invoked in this call
    twin,         \* history: outcome of the same request step on the same
                  \* response with its diagnostics (header, "last" link) sound
    lastFetch,    \* history: output of the last complete fetch that began
                  \* with an empty Store, valid until the Store is written
    prevReplay,   \* history: output of the last complete replay and, when
                  \* the one before it was complete too (again), its
                  \* output (before); valid until the Store is written
    calls,        \* number of generator calls made
    setup         \* history: Store operations GitHubCommand.__init__ invoked

vars == << disk, cache, cache_queue, driver, fetch_cache, from_date, gen, pc,
           result, exc, page, last_page, r, issues, raw_issues, items, idx,
           ridx, out, pages, bodies, urls, auths, disk0, queue0, recovered,
           retrieved, twin, lastFetch, prevReplay, calls, setup >>

backendVars == << cache, driver, fetch_cache, setup >>
clientVars == << page, last_page, r, issues >>
loopVars == << raw_issues, items, idx, ridx >>
walkHist == << pages, bodies, urls, auths, twin >>
callHist == << disk0, queue0 >>
memo == << lastFetch, prevReplay >>

store == disk.items

NoMemo == [valid |-> FALSE, out |-> <<>>]
NoReplay == [valid |-> FALSE, out |-> <<>>, again |-> FALSE, before |-> <<>>]
NoTwin == [exc |-> NoExc, last_page |-> <<>>]

Init ==
    /\ disk = [items |-> <<>>, backup |-> <<>>]
    /\ cache = FALSE
    /\ cache_queue = <<>>
    /\ driver = "none"
    /\ fetch_cache = FALSE
    /\ from_date = None
    /\ gen = "none"
    /\ pc = "idle"
    /\ result = "none"
    /\ exc = NoExc
    /\ page = 0
    /\ last_page = <<>>
    /\ r = NoResponse
    /\ issues = None
    /\ raw_issues = None
    /\ items = <<>>
    /\ idx = 0
    /\ ridx = 0
    /\ out = <<>>
    /\ pages = <<>>
    /\ bodies = <<>>
    /\ urls = <<>>
    /\ auths = <<>>
    /\ disk0 = disk
    /\ queue0 = <<>>
    /\ recovered = FALSE
    /\ retrieved = FALSE
    /\ twin = NoTwin
    /\ lastFetch = NoMemo
    /\ prevReplay = NoReplay
    /\ calls = 0
    /\ setup = <<>>

\* The frames and the histories of a call, as a new call (or a new backend)
\* finds them.
FreshCall ==
    /\ exc' = NoExc
    /\ page' = 0
    /\ last_page' = <<>>
    /\ r' = NoResponse
    /\ issues' = None
    /\ raw_issues' = None
    /\ items' = <<>>
    /\ idx' = 0
    /\ ridx' = 0
    /\ out' = <<>>
    /\ pages' = <<>>
    /\ bodies' = <<>>
    /\ urls' = <<>>
    /\ auths' = <<>>
    /\ recovered' = FALSE
    /\ retrieved' = FALSE
    /\ twin' = NoTwin

\* An exception leaves the generators: a caller of the library sees it at
\* its pull; GitHubCommand.run catches it in its try block.
Raise(e) ==
    /\ exc' = e
    /\ pc' = IF driver = "cmd" THEN "except" ELSE "idle"
    /\ result' = IF driver = "cmd" THEN "running" ELSE "error"

\* ----------------------------------------------------------- construction
\* GitHub.__init__ called by a user of the library, with a cache or without.
NewBackend ==
    /\ pc = "idle"
    /\ calls < MaxCalls
    /\ \E c \in BOOLEAN : cache' = c
    /\ cache_queue' = <<>>
    /\ driver' = "lib"
    /\ fetch_cache' = FALSE
    /\ setup' = <<>>
    /\ gen' = "none"
    /\ result' = "none"
    /\ FreshCall
    /\ UNCHANGED << disk, from_date, pc, callHist, memo, calls >>

\* GitHubCommand.__init__ backing the Store up whatever clean_cache is:
\* with clean_cache both clean() and backup() are invoked.
CommandInitAlwaysBackup ==
    /\ pc = "idle"
    /\ calls < MaxCalls
    /\ \E no_cache, clean_cache, fetch \in BOOLEAN :
        /\ cache' = ~no_cache
        /\ fetch_cache' = fetch
        /\ disk' = IF no_cache THEN disk
                   ELSE IF clean_cache THEN CacheBackup(CacheClean(disk))
                   ELSE CacheBackup(disk)
        /\ setup' = IF no_cache THEN <<>>
                    ELSE IF clean_cache THEN << "clean", "backup" >>
                    ELSE << "backup" >>
        /\ lastFetch' = IF ~no_cache /\ clean_cache THEN NoMemo ELSE lastFetch
        /\ prevReplay' = IF ~no_cache /\ clean_cache THEN NoReplay ELSE prevReplay
    /\ cache_queue' = <<>>
    /\ driver' = "cmd"
    /\ gen' = "none"
    /\ result' = "none"
    /\ pc' = "ready"
    /\ FreshCall
    /\ UNCHANGED << from_date, callHist, calls >>

\* GitHubCommand.__init__: unless no_cache, build the Cache and clean it
\* (clean_cache) or back it up; then build the backend.
CommandInit ==
    /\ pc = "idle"
    /\ calls < MaxCalls
    /\ \E no_cache, clean_cache, fetch \in BOOLEAN :
        /\ cache' = ~no_cache
        /\ fetch_cache' = fetch
        /\ disk' = IF no_cache THEN disk
                   ELSE IF clean_cache THEN CacheClean(disk)
                   ELSE CacheBackup(disk)
        /\ setup' = IF no_cache THEN <<>>
                    ELSE IF clean_cache THEN << "clean" >>
                    ELSE << "backup" >>
        /\ lastFetch' = IF ~no_cache /\ clean_cache THEN NoMemo ELSE lastFetch
        /\ prevReplay' = IF ~no_cache /\ clean_cache THEN NoReplay ELSE prevReplay
    /\ cache_queue' = <<>>
    /\ driver' = "cmd"
    /\ gen' = "none"
    /\ result' = "none"
    /\ pc' = "ready"
    /\ FreshCall
    /\ UNCHANGED << from_date, callHist, calls >>

\* A generator object is created: nothing of its body runs yet.
StartCall(g, d) ==
    /\ calls < MaxCalls
    /\ g = "fetch" => Len(disk.items) + MaxPages <= MaxStore
    /\ calls' = calls + 1
    /\ gen' = g
    /\ from_date' = d
    /\ pc' = "start"
    /\ result' = "running"
    /\ disk0' = disk
    /\ queue0' = cache_queue
    /\ FreshCall
    /\ UNCHANGED << disk, cache_queue, backendVars, memo >>

\* GitHubCommand.run, lines 214-217: pick the generator.
CommandRun ==
    /\ pc = "ready"
    /\ IF fetch_cache
         THEN StartCall("replay", None)
         ELSE \E d \in FromDates : StartCall("fetch", d)

\* A user of the library calls backend.fetch(from_date).
CallFetch ==
    /\ pc = "idle"
    /\ driver = "lib"
    /\ \E d \in FromDates : StartCall("fetch", d)

\* A user of the library calls backend.fetch_from_cache().
CallFetchFromCache ==
    /\ pc = "idle"
    /\ driver = "lib"
    /\ StartCall("replay", None)

\* ------------------------------------------------- GitHubClient.get_issues
\* Lines 148-156 on the first response: the rate-limit header is read, then
\* the "last" link, when there is one, is parsed into last_page.
FirstStep(resp) ==
    IF RateHeader \notin DOMAIN resp.headers
      THEN [exc |-> "KeyError", last_page |-> <<>>]
    ELSE IF "last" \notin DOMAIN resp.links
      THEN [exc |-> NoExc, last_page |-> <<>>]
    ELSE IF ~HasPageParam(resp.links["last"])
      THEN [exc |-> "IndexError", last_page |-> <<>>]
    ELSE [exc |-> NoExc, last_page |-> << LastPage(resp.links["last"]) >>]

\* Lines 168-172 on a later response: "Page: %i/%i" % (page, last_page)
\* raises TypeError when last_page is None; then the header is read.
NextStep(resp, lp) ==
    IF lp = <<>>
      THEN [exc |-> "TypeError", last_page |-> lp]
    ELSE IF RateHeader \notin DOMAIN resp.headers
      THEN [exc |-> "KeyError", last_page |-> lp]
    ELSE [exc |-> NoExc, last_page |-> lp]

\* The response with sound diagnostics: the rate-limit header present and a
\* "last" link whose page number parses.  Body and "next" link are kept.
Sound(resp) ==
    [resp EXCEPT
       !.headers = [h \in {RateHeader} |-> "59"],
       !.links = [rel \in DOMAIN resp.links \cup {"last"} |->
                    IF rel = "last"
                      THEN << Param("per_page", "30"), Param("page", "2") >>
                      ELSE resp.links[rel]]]

\* What the generator's frame keeps of a response once the request step is
\* over: the text is copied into `issues`, and of r only r.links['next'] is
\* read again (line 163).
Held(resp) ==
    [resp EXCEPT
       !.links = [rel \in DOMAIN resp.links \cap {"next"} |-> resp.links[rel]]]

\* Lines 141-156: build the first URL, request it, keep the body, read the
\* diagnostics.
GetIssuesFirst ==
    /\ pc = "request"
    /\ urls' = Append(urls, IssuesUrl(from_date))
    /\ auths' = Append(auths, Authorization(auth_token))
    /\ \/ /\ Raise("RequestException")
          /\ twin' = [exc |-> "RequestException", last_page |-> <<>>]
          /\ UNCHANGED << clientVars, bodies >>
       \/ \E resp \in Responses(1) :
            LET step == FirstStep(resp) IN
            /\ bodies' = Append(bodies, resp.text)
            /\ twin' = FirstStep(Sound(resp))
            /\ r' = Held(resp)
            /\ issues' = resp.text
            /\ page' = 1
            /\ last_page' = step.last_page
            /\ IF step.exc # NoExc
                 THEN Raise(step.exc)
                 ELSE /\ pc' = "loop"
                      /\ UNCHANGED << exc, result >>
    /\ UNCHANGED << disk, cache_queue, backendVars, from_date, gen, loopVars,
                    out, pages, callHist, recovered, retrieved, memo, calls >>

\* Lines 158-159: `while issues:` yields the body to fetch, or ends the
\* walk; the end of the walk ends fetch's for loop, fetch returns, and the
\* consumer's loop ends.
GetIssuesLoop ==
    /\ pc = "loop"
    /\ IF Truthy(issues)
         THEN /\ pages' = Append(pages, issues)
              /\ raw_issues' = issues
              /\ pc' = "cache"
              /\ UNCHANGED << result, lastFetch >>
         ELSE /\ pc' = "idle"
              /\ result' = "done"
              /\ lastFetch' = IF cache /\ disk0.items = <<>>
                                THEN [valid |-> TRUE, out |-> out]
                                ELSE lastFetch
              /\ UNCHANGED << pages, raw_issues >>
    /\ UNCHANGED << disk, cache_queue, backendVars, from_date, gen, exc,
                    clientVars, items, idx, ridx, out, bodies, urls, auths,
                    twin,
                    callHist, recovered, retrieved, prevReplay, calls >>

\* Lines 161-172: after the yield, follow the "next" link when the response
\* held carries one: request it, count the page, keep the body, log.
GetIssuesNext ==
    /\ pc = "resume"
    /\ IF "next" \in DOMAIN r.links
         THEN /\ urls' = Append(urls, UrlNext(r))
              /\ auths' = Append(auths, Authorization(auth_token))
              /\ \/ /\ Raise("RequestException")
                    /\ twin' = [exc |-> "RequestException",
                                last_page |-> twin.last_page]
                    /\ issues' = None
                    /\ UNCHANGED << page, last_page, r, bodies >>
                 \/ \E resp \in Responses(page + 1) :
                      LET step == NextStep(resp, last_page) IN
                      /\ bodies' = Append(bodies, resp.text)
                      /\ twin' = NextStep(Sound(resp), twin.last_page)
                      /\ r' = Held(resp)
                      /\ page' = page + 1
                      /\ issues' = resp.text
                      /\ UNCHANGED last_page
                      /\ IF step.exc # NoExc
                           THEN Raise(step.exc)
                           ELSE /\ pc' = "loop"
                                /\ UNCHANGED << exc, result >>
         ELSE /\ issues' = None
              /\ pc' = "loop"
              /\ UNCHANGED << page, last_page, r, urls, auths, bodies, twin,
                              exc, result >>
    /\ UNCHANGED << disk, cache_queue, backendVars, from_date, gen, loopVars,
                    out, pages, callHist, recovered, retrieved, memo, calls >>

\* ------------------------------------------------------------ GitHub.fetch
\* FetchBegin without line 69: the Cache Queue is left as the last call
\* left it.
FetchBeginNoPurge ==
    /\ pc = "start"
    /\ gen = "fetch"
    /\ pc' = "request"
    /\ UNCHANGED << disk, cache_queue, backendVars, from_date, gen, result,
                    exc, clientVars, loopVars, out, walkHist, callHist,
                    recovered, retrieved, memo, calls >>

\* Lines 69-71: purge the Cache Queue, create the get_issues generator.
FetchBegin ==
    /\ pc = "start"
    /\ gen = "fetch"
    /\ cache_queue' = PurgeQueue(cache_queue)
    /\ pc' = "request"
    /\ UNCHANGED << disk, backendVars, from_date, gen, result, exc,
                    clientVars, loopVars, out, walkHist, callHist, recovered,
                    retrieved, memo, calls >>

\* FetchCache without line 75: the Page is pushed and the queue is never
\* flushed.
FetchCachePushOnly ==
    /\ pc = "cache"
    /\ cache_queue' = PushQueue(cache_queue, raw_issues)
    /\ pc' = "decode"
    /\ UNCHANGED << disk, backendVars, from_date, gen, result, exc,
                    clientVars, loopVars, out, walkHist, callHist, recovered,
                    retrieved, memo, calls >>

\* FetchCache guarding the rest of the loop body by the cache: without a
\* cache the Page is neither decoded nor yielded.
FetchCacheOnlyCached ==
    /\ pc = "cache"
    /\ LET queued == PushQueue(cache_queue, raw_issues) IN
       \/ /\ cache_queue' = <<>>
          /\ disk' = FlushQueue(disk, queued, cache)
          /\ lastFetch' = IF cache THEN NoMemo ELSE lastFetch
          /\ prevReplay' = IF cache THEN NoReplay ELSE prevReplay
          /\ pc' = IF cache THEN "decode" ELSE "resume"
          /\ UNCHANGED << result, exc >>
       \/ /\ cache
          /\ cache_queue' = queued
          /\ Raise("CacheError")
          /\ UNCHANGED << disk, memo >>
    /\ UNCHANGED << backendVars, from_date, gen, clientVars, loopVars, out,
                    walkHist, callHist, recovered, retrieved, calls >>

\* FetchCache whose flush leaves the buffer as it was: the Pages flushed
\* stay buffered and are appended again by the next flush.
FetchCacheKeepBuffer ==
    /\ pc = "cache"
    /\ LET queued == PushQueue(cache_queue, raw_issues) IN
       \/ /\ cache_queue' = queued
          /\ disk' = FlushQueue(disk, queued, cache)
          /\ lastFetch' = IF cache THEN NoMemo ELSE lastFetch
          /\ prevReplay' = IF cache THEN NoReplay ELSE prevReplay
          /\ pc' = "decode"
          /\ UNCHANGED << result, exc >>
       \/ /\ cache
          /\ cache_queue' = queued
          /\ Raise("CacheError")
          /\ UNCHANGED << disk, memo >>
    /\ UNCHANGED << backendVars, from_date, gen, clientVars, loopVars, out,
                    walkHist, callHist, recovered, retrieved, calls >>

\* Lines 74-75: push the Page on the Cache Queue and flush the queue: with
\* a cache the buffered Pages are appended to the Store and the buffer is
\* cleared; the Store may refuse the write, and the flush then raises with
\* the buffer as it was.  Without a cache nothing is written.
FetchCache ==
    /\ pc = "cache"
    /\ LET queued == PushQueue(cache_queue, raw_issues) IN
       \/ /\ cache_queue' = <<>>
          /\ disk' = FlushQueue(disk, queued, cache)
          /\ lastFetch' = IF cache THEN NoMemo ELSE lastFetch
          /\ prevReplay' = IF cache THEN NoReplay ELSE prevReplay
          /\ pc' = "decode"
          /\ UNCHANGED << result, exc >>
       \/ /\ cache
          /\ cache_queue' = queued
          /\ Raise("CacheError")
          /\ UNCHANGED << disk, memo >>
    /\ UNCHANGED << backendVars, from_date, gen, clientVars, loopVars, out,
                    walkHist, callHist, recovered, retrieved, calls >>

\* Line 76: issues = json.loads(raw_issues).
FetchDecode ==
    /\ pc = "decode"
    /\ LET decoded == Loads(raw_issues) IN
       IF decoded.ok
         THEN /\ items' = decoded.items
              /\ idx' = 0
              /\ pc' = "items"
              /\ UNCHANGED << result, exc >>
         ELSE /\ Raise("ValueError")
              /\ UNCHANGED << items, idx >>
    /\ UNCHANGED << disk, cache_queue, backendVars, from_date, gen,
                    clientVars, raw_issues, ridx, out, walkHist, callHist,
                    recovered, retrieved, memo, calls >>

\* FetchItems leaving the Page after its first item: the next Page is
\* pulled from get_issues while items of this one are still to be yielded.
FetchItemsEager ==
    /\ pc = "items"
    /\ gen = "fetch"
    /\ IF idx < Len(items) /\ idx < 1
         THEN /\ idx' = idx + 1
              /\ out' = Append(out, items[idx + 1])
              /\ pc' = "consumer"
         ELSE /\ pc' = "resume"
              /\ UNCHANGED << idx, out >>
    /\ UNCHANGED << disk, cache_queue, backendVars, from_date, gen, result,
                    exc, clientVars, raw_issues, items, ridx, walkHist,
                    callHist, recovered, retrieved, memo, calls >>

\* Lines 77-78: yield the next item of the Page to the consumer, or, the
\* Page exhausted, pull the next Page from get_issues.
FetchItems ==
    /\ pc = "items"
    /\ gen = "fetch"
    /\ IF idx < Len(items)
         THEN /\ idx' = idx + 1
              /\ out' = Append(out, items[idx + 1])
              /\ pc' = "consumer"
         ELSE /\ pc' = "resume"
              /\ UNCHANGED << idx, out >>
    /\ UNCHANGED << disk, cache_queue, backendVars, from_date, gen, result,
                    exc, clientVars, raw_issues, items, ridx, walkHist,
                    callHist, recovered, retrieved, memo, calls >>

\* ------------------------------------------------- GitHub.fetch_from_cache
\* ReplayBegin without lines 93-94: retrieve() is called whatever
\* self.cache is.
ReplayBeginNoCheck ==
    /\ pc = "start"
    /\ gen = "replay"
    /\ retrieved' = TRUE
    /\ pc' = "page"
    /\ UNCHANGED << disk, cache_queue, backendVars, from_date, gen, result,
                    exc, clientVars, loopVars, out, walkHist, callHist,
                    recovered, memo, calls >>

\* ReplayBegin opening as fetch does (line 69): the Cache Queue is purged.
ReplayBeginPurging ==
    /\ pc = "start"
    /\ gen = "replay"
    /\ cache_queue' = <<>>
    /\ IF ~cache
         THEN /\ Raise("CacheError")
              /\ UNCHANGED retrieved
         ELSE /\ retrieved' = TRUE
              /\ pc' = "page"
              /\ UNCHANGED << exc, result >>
    /\ UNCHANGED << disk, backendVars, from_date, gen, clientVars, loopVars,
                    out, walkHist, callHist, recovered, memo, calls >>

\* Lines 93-96: without a cache raise CacheError; else call retrieve().
ReplayBegin ==
    /\ pc = "start"
    /\ gen = "replay"
    /\ IF ~cache
         THEN /\ Raise("CacheError")
              /\ UNCHANGED retrieved
         ELSE /\ retrieved' = TRUE
              /\ pc' = "page"
              /\ UNCHANGED << exc, result >>
    /\ UNCHANGED << disk, cache_queue, backendVars, from_date, gen,
                    clientVars, loopVars, out, walkHist, callHist,
                    recovered, memo, calls >>

\* ReplayPage reading destructively: each Page taken is removed from the
\* Store.
ReplayPageConsuming ==
    /\ pc = "page"
    /\ LET cache_items == CacheRetrieve(disk) IN
       IF Len(cache_items) > 0
         THEN LET decoded == Loads(cache_items[1]) IN
              /\ ridx' = ridx + 1
              /\ raw_issues' = cache_items[1]
              /\ disk' = [disk EXCEPT !.items = Tail(@)]
              /\ IF decoded.ok
                   THEN /\ items' = decoded.items
                        /\ idx' = 0
                        /\ pc' = "ritems"
                        /\ UNCHANGED << exc, result >>
                   ELSE /\ Raise("ValueError")
                        /\ UNCHANGED << items, idx >>
              /\ UNCHANGED prevReplay
         ELSE /\ pc' = "idle"
              /\ result' = "done"
              /\ prevReplay' = [valid |-> TRUE, out |-> out,
                                again |-> prevReplay.valid,
                                before |-> prevReplay.out]
              /\ UNCHANGED << disk, exc, loopVars >>
    /\ UNCHANGED << cache_queue, backendVars, from_date, gen, clientVars,
                    out, walkHist, callHist, recovered, retrieved, lastFetch,
                    calls >>

\* Lines 100-101 stopping after the first item of each Page.
ReplayItemsFirstOnly ==
    /\ pc = "ritems"
    /\ IF idx < Len(items) /\ idx < 1
         THEN /\ idx' = idx + 1
              /\ out' = Append(out, items[idx + 1])
              /\ pc' = "consumer"
         ELSE /\ pc' = "page"
              /\ UNCHANGED << idx, out >>
    /\ UNCHANGED << disk, cache_queue, backendVars, from_date, gen, result,
                    exc, clientVars, raw_issues, items, ridx, walkHist,
                    callHist, recovered, retrieved, memo, calls >>

\* ReplayPage passing over a Page that does not decode: the ValueError of
\* json.loads is swallowed and the next Page is taken.
ReplayPageSkipping ==
    /\ pc = "page"
    /\ LET cache_items == CacheRetrieve(disk) IN
       IF ridx < Len(cache_items)
         THEN LET decoded == Loads(cache_items[ridx + 1]) IN
              /\ ridx' = ridx + 1
              /\ raw_issues' = cache_items[ridx + 1]
              /\ IF decoded.ok
                   THEN /\ items' = decoded.items
                        /\ idx' = 0
                        /\ pc' = "ritems"
                   ELSE /\ pc' = "page"
                        /\ UNCHANGED << items, idx >>
              /\ UNCHANGED << exc, result, prevReplay >>
         ELSE /\ pc' = "idle"
              /\ result' = "done"
              /\ prevReplay' = [valid |-> TRUE, out |-> out,
                                again |-> prevReplay.valid,
                                before |-> prevReplay.out]
              /\ UNCHANGED << exc, loopVars >>
    /\ UNCHANGED << disk, cache_queue, backendVars, from_date, gen,
                    clientVars, out, walkHist, callHist, recovered,
                    retrieved, lastFetch, calls >>

\* Lines 98-99: take the next Page of retrieve() and decode it; the Pages
\* exhausted, the generator returns and the consumer's loop ends.
ReplayPage ==
    /\ pc = "page"
    /\ LET cache_items == CacheRetrieve(disk) IN
       IF ridx < Len(cache_items)
         THEN LET decoded == Loads(cache_items[ridx + 1]) IN
              /\ ridx' = ridx + 1
              /\ raw_issues' = cache_items[ridx + 1]
              /\ IF decoded.ok
                   THEN /\ items' = decoded.items
                        /\ idx' = 0
                        /\ pc' = "ritems"
                        /\ UNCHANGED << exc, result >>
                   ELSE /\ Raise("ValueError")
                        /\ UNCHANGED << items, idx >>
              /\ UNCHANGED prevReplay
         ELSE /\ pc' = "idle"
              /\ result' = "done"
              /\ prevReplay' = [valid |-> TRUE, out |-> out,
                                again |-> prevReplay.valid,
                                before |-> prevReplay.out]
              /\ UNCHANGED << exc, loopVars >>
    /\ UNCHANGED << disk, cache_queue, backendVars, from_date, gen,
                    clientVars, out, walkHist, callHist, recovered,
                    retrieved, lastFetch, calls >>

\* Lines 100-101: yield the next item of the Page, or go to the next Page.
ReplayItems ==
    /\ pc = "ritems"
    /\ IF idx < Len(items)
         THEN /\ idx' = idx + 1
              /\ out' = Append(out, items[idx + 1])
              /\ pc' = "consumer"
         ELSE /\ pc' = "page"
              /\ UNCHANGED << idx, out >>
    /\ UNCHANGED << disk, cache_queue, backendVars, from_date, gen, result,
                    exc, clientVars, raw_issues, items, ridx, walkHist,
                    callHist, recovered, retrieved, memo, calls >>

\* ---------------------------------------------------------- the consumers
\* Where the generator resumes after a yield.
AfterYield == IF gen = "fetch" THEN "items" ELSE "ritems"

\* A user of the library, holding a yielded item, pulls the next one.
ConsumerPull ==
    /\ pc = "consumer"
    /\ driver = "lib"
    /\ pc' = AfterYield
    /\ UNCHANGED << disk, cache_queue, backendVars, from_date, gen, result,
                    exc, clientVars, loopVars, out, walkHist, callHist,
                    recovered, retrieved, memo, calls >>

\* A user of the library, holding a yielded item, abandons the iteration:
\* the generator is closed at its yield.
ConsumerAbandon ==
    /\ pc = "consumer"
    /\ driver = "lib"
    /\ pc' = "idle"
    /\ result' = "abandoned"
    /\ UNCHANGED << disk, cache_queue, backendVars, from_date, gen, exc,
                    clientVars, loopVars, out, walkHist, callHist, recovered,
                    retrieved, memo, calls >>

\* GitHubCommand.run, lines 220-224: dump the item and write it to the
\* outfile; the write succeeds, or the sink fails with IOError.
CommandWrite ==
    /\ pc = "consumer"
    /\ driver = "cmd"
    /\ \/ /\ pc' = AfterYield
          /\ UNCHANGED exc
       \/ /\ exc' = "IOError"
          /\ pc' = "except"
    /\ UNCHANGED << disk, cache_queue, backendVars, from_date, gen, result,
                    clientVars, loopVars, out, walkHist, callHist, recovered,
                    retrieved, memo, calls >>

\* GitHubCommand.run, lines 225-230: an IOError is re-raised as a
\* RuntimeError; any other exception first recovers the cache, when the
\* backend has one.
CommandExcept ==
    /\ pc = "except"
    /\ IF ~IsIOError(exc) /\ cache
         THEN /\ disk' = CacheRecover(disk)
              /\ recovered' = TRUE
              /\ lastFetch' = NoMemo
              /\ prevReplay' = NoReplay
         ELSE UNCHANGED << disk, recovered, memo >>
    /\ pc' = "idle"
    /\ result' = "error"
    /\ UNCHANGED << cache_queue, backendVars, from_date, gen, exc,
                    clientVars, loopVars, out, walkHist, callHist, retrieved,
                    calls >>

\* ---------------------------------------------------------- specification
Next ==
    \/ NewBackend
    \/ CommandInit
    \/ CommandRun
    \/ CallFetch
    \/ CallFetchFromCache
    \/ FetchBegin
    \/ GetIssuesFirst
    \/ GetIssuesLoop
    \/ FetchCache
    \/ FetchDecode
    \/ FetchItems
    \/ GetIssuesNext
    \/ ReplayBegin
    \/ ReplayPage
    \/ ReplayItems
    \/ ConsumerPull
    \/ ConsumerAbandon
    \/ CommandWrite
    \/ CommandExcept

Spec == Init /\ [][Next]_vars

TypeOK ==
    /\ pc \in {"idle", "ready", "start", "request", "loop", "cache", "decode",
               "items", "resume", "page", "ritems", "consumer", "except"}
    /\ gen \in {"none", "fetch", "replay"}
    /\ result \in {"none", "running", "done", "error", "abandoned"}
    /\ calls \in 0..MaxCalls
    /\ Len(bodies) <= MaxPages

\* ----------------------------------------------------------------- claims
\* Position in the Store of the Page fetch holds in raw_issues: the Pages
\* of this call follow the entries the Store held when the call began.
PagePosition == Len(disk0.items) + Len(pages)

\* C1 (durability before exposure): with a cache configured, at every
\* yield of an item by fetch the Page the item was decoded from is already
\* an entry of the Store, appended by this call.
C1_DurabilityBeforeExposure ==
    (gen = "fetch" /\ cache /\ pc = "consumer") =>
        /\ Len(store) >= PagePosition
        /\ PagePosition > Len(disk0.items)
        /\ store[PagePosition] = raw_issues

\* C1 witness: an item of the second Page of a fetch with a cache is with
\* the consumer.
C1_Witness ==
    /\ gen = "fetch"
    /\ cache
    /\ pc = "consumer"
    /\ Len(pages) = 2
    /\ out # <<>>

\* Exceptions a request step of get_issues raises: the transport's, and
\* those of its diagnostics.
DiagnosticErrors == {"KeyError", "IndexError", "TypeError"}
RequestStepErrors == {"RequestException"} \cup DiagnosticErrors

\* The walk of get_issues is over by its own doing: it ran out of Pages, or
\* one of its diagnostics raised.  (A walk cut short by the consumer, the
\* cache, a decode or the transport is not.)
WalkOver == gen = "fetch" /\ (result = "done" \/ exc \in DiagnosticErrors)

\* The server's chain was received to its end: the last response received
\* carries no "next" link.
ChainReceived == bodies # <<>> /\ "next" \notin DOMAIN r.links

\* Every response received carried a non-empty body and the rate-limit
\* header, and a "last" link, where present, whose page number parses.
PlainChain ==
    /\ \A i \in 1..Len(bodies) : bodies[i] # EmptyText
    /\ exc \notin {"KeyError", "IndexError"}
    /\ RateHeader \in DOMAIN r.headers

\* C2 (pagination termination): for a chain of n >= 1 responses, each but
\* the last with a "next" link, get_issues yields exactly the n bodies in
\* order, having issued n requests, and then stops.  Stated here for the
\* chains of PlainChain only, which the claim includes.
C2_PaginationTermination ==
    (WalkOver /\ ChainReceived /\ PlainChain) =>
        /\ result = "done"
        /\ pages = bodies
        /\ Len(urls) = Len(bodies)

\* C6 (every response is yielded): when the walk ends, every response
\* received was yielded as a Page, whatever its body, and the last one
\* received carries no "next" link.
C6_EveryResponseYielded ==
    (gen = "fetch" /\ result = "done") =>
        /\ pages = bodies
        /\ "next" \notin DOMAIN r.links

\* The exception of the call, when it is one of a request step.
StepExc == IF exc \in RequestStepErrors THEN exc ELSE NoExc

\* C7 (diagnostics do not alter control flow): a request step ends the same
\* way on a response and on the response that differs from it only in the
\* rate-limit header and the "last" link (twin: the step's outcome on the
\* response with sound diagnostics).
C7_DiagnosticsInert == gen = "fetch" => twin.exc = StepExc

\* C5 (failures propagate at once): no item decoded from a response with a
\* non-success status is yielded, and no request follows a response with a
\* non-success status or a malformed body.
C5_FailureAborts ==
    gen = "fetch" =>
        /\ pc = "consumer" => StatusOf(raw_issues) = 200
        /\ \A i \in 1..(Len(bodies) - 1) :
               StatusOf(bodies[i]) = 200 /\ Loads(bodies[i]).ok

\* C3 (recover on every failure but the sink's): a run of the command with
\* a cache that failed for another reason than an output write has invoked
\* cache.recover(), and the Store holds what the last backup held.
C3_RecoverOnFailure ==
    (driver = "cmd" /\ cache /\ result = "error" /\ exc # "IOError") =>
        /\ recovered
        /\ store = disk.backup

\* C4 (cache round trip): a complete fetch_from_cache that follows a
\* complete fetch begun with an empty Store, the Store not written in
\* between, has yielded the very sequence of items the fetch yielded.
C4_RoundTrip ==
    (gen = "replay" /\ result = "done" /\ lastFetch.valid) =>
        out = lastFetch.out

\* C4 witness: such a replay has ended having yielded the four items of two
\* Pages (the same two issues on both Pages, none removed).
C4_Witness ==
    /\ gen = "replay"
    /\ result = "done"
    /\ lastFetch.valid
    /\ store = << TwoIssues, TwoIssues >>
    /\ Len(out) = 4

\* The entries this call has appended to the Store.
Appended == SubSeq(store, Len(disk0.items) + 1, Len(store))

\* s is a prefix of t.
IsPrefix(s, t) == Len(s) <= Len(t) /\ SubSeq(t, 1, Len(s)) = s

\* C8 (purge before fetch): the queue is empty when fetch pushes a Page,
\* and the entries a fetch appends to the Store are Pages get_issues
\* yielded in this very call, in order: a Page left in the queue by an
\* earlier call is never appended.
C8_PurgeBeforeFetch ==
    (gen = "fetch" /\ cache /\ ~recovered) =>
        /\ pc = "cache" => cache_queue = <<>>
        /\ IsPrefix(disk0.items, store)
        /\ IsPrefix(Appended, pages)

\* C8 witness: a fetch begun on a backend whose queue held an unflushed
\* Page has appended a Page to the Store.
C8_Witness ==
    /\ gen = "fetch"
    /\ cache
    /\ queue0 # <<>>
    /\ Appended # <<>>

\* C9 (replay without a cache): once fetch_from_cache has been advanced on
\* a backend without a cache, CacheError is raised, no item was yielded and
\* retrieve() was not called.
C9_NoCacheNoReplay ==
    (gen = "replay" /\ ~cache /\ pc # "start") =>
        /\ exc = "CacheError"
        /\ out = <<>>
        /\ ~retrieved
        /\ pc \in {"except", "idle"}
        /\ result \in {"running", "error"}
        /\ pc = "idle" => result = "error"

\* C9 witness: the call has failed on a backend without a cache while the
\* Store holds Pages.
C9_Witness ==
    /\ gen = "replay"
    /\ ~cache
    /\ result = "error"
    /\ store # <<>>

\* C10 (idempotent replay): a complete fetch_from_cache leaves the Store as
\* it found it, and when the complete replay before it ran on the same
\* Store contents, both yielded the same sequence of items.
C10_IdempotentReplay ==
    (gen = "replay" /\ result = "done") =>
        /\ store = disk0.items
        /\ prevReplay.again => prevReplay.out = prevReplay.before

\* C10 witness: the second of two complete replays of a populated Store
\* has ended, having yielded items.
C10_Witness ==
    /\ gen = "replay"
    /\ result = "done"
    /\ prevReplay.again
    /\ store # <<>>
    /\ out # <<>>

\* C11 (no recover on success or on a sink failure): a run of the command
\* that ended normally, or by a failed output write, has not invoked
\* cache.recover(); with a cache, the Store holds what it held when the run
\* began followed by every Page the run fetched.
C11_NoRecoverOnSinkFailure ==
    (driver = "cmd" /\ (result = "done" \/ (result = "error" /\ exc = "IOError"))) =>
        /\ ~recovered
        /\ (cache /\ gen = "fetch") => store = disk0.items \o pages
        /\ gen = "replay" => store = disk0.items

\* C11 witness: a fetching run with a cache has ended by a failed output
\* write after a Page was appended to the Store.
C11_Witness ==
    /\ driver = "cmd"
    /\ cache
    /\ gen = "fetch"
    /\ result = "error"
    /\ exc = "IOError"
    /\ Appended # <<>>

\* C12 (next links followed verbatim): the first request of a fetch goes to
\* the URL built by _get_issues_url for the call's from_date; every later
\* request goes to exactly the URL of the "next" link of the response held,
\* the one received last; every request carries the Authorization header
\* made of the client's token.
C12_NextLinksVerbatim ==
    [][ (gen' = "fetch" /\ Len(urls') > Len(urls)) =>
          /\ urls # <<>> => "next" \in DOMAIN r.links
          /\ urls' = Append(urls, IF urls = <<>> THEN IssuesUrl(from_date)
                                                  ELSE r.links["next"])
          /\ auths' = Append(auths, Authorization(auth_token)) ]_vars

\* C12 witness: a second request was made, to a URL carrying the server's
\* opaque parameter, and its response was received.
C12_Witness ==
    /\ gen = "fetch"
    /\ Len(urls) = 2
    /\ Len(bodies) = 2
    /\ \E i \in 1..Len(urls[2]) : urls[2][i].k = "cursor"
    /\ Len(auths) = 2

\* The items of a sequence of Pages, in order: json.loads of each Page that
\* decodes (lines 76-78, 99-101).
RECURSIVE ItemsOf(_)
ItemsOf(ps) ==
    IF ps = <<>> THEN <<>>
    ELSE LET decoded == Loads(ps[Len(ps)])
         IN  ItemsOf(SubSeq(ps, 1, Len(ps) - 1)) \o
               (IF decoded.ok THEN decoded.items ELSE <<>>)

\* C13 (sequential, demand-driven fetching): the requests of a fetch never
\* run more than one ahead of the Pages yielded; when a request has been
\* made beyond the Pages yielded, every item of every Page yielded has been
\* yielded to the consumer; once the consumer has abandoned the fetch, the
\* requests made are those of the Pages it was given and the fetch is over.
C13_DemandDriven ==
    gen = "fetch" =>
        /\ Len(urls) <= Len(pages) + 1
        /\ Len(urls) > Len(pages) => out = ItemsOf(pages)
        /\ result = "abandoned" => (Len(urls) = Len(pages) /\ pc = "idle")

\* C13 witness: the second request was made after both items of the first
\* Page were yielded.
C13_Witness ==
    /\ gen = "fetch"
    /\ Len(urls) = 2
    /\ Len(pages) = 1
    /\ Len(out) = 2
    /\ pc = "loop"

\* A fetch with a cache that began with an empty Store is over (complete,
\* abandoned or failed) and GitHubCommand.run has not rolled the Store back.
FetchOverFromEmpty ==
    /\ gen = "fetch"
    /\ cache
    /\ disk0.items = <<>>
    /\ pc \in {"idle", "except"}
    /\ ~recovered

\* C14 as stated (Store content after a fetch): after a fetch that began
\* with an empty Store, however it ended, the Store holds exactly the Pages
\* fetched, in fetch order.
C14_StoreHoldsEveryPage == FetchOverFromEmpty => store = pages

\* C14 amended: after a fetch that began with an empty Store, the Store
\* holds exactly the Pages fetched, in fetch order, except that when the
\* fetch ended by a failed flush the Page of that flush is missing: the
\* Store then holds the Pages before it.
C14_StoreHoldsFlushedPages ==
    FetchOverFromEmpty =>
        store = IF exc = "CacheError" THEN SubSeq(pages, 1, Len(pages) - 1)
                                      ELSE pages

\* C14 witness: a fetch from an empty Store ended by a failed flush of its
\* second Page, the first Page being in the Store.
C14_Witness ==
    /\ FetchOverFromEmpty
    /\ exc = "CacheError"
    /\ Len(pages) = 2
    /\ store = << pages[1] >>

\* The fetch is over: it returned, it raised, or the consumer left it.
FetchOver == gen = "fetch" /\ pc \in {"idle", "except"}

\* C15 as stated (Cache Queue buffer bound): in every state of a fetch the
\* buffer holds at most one Page; it is empty whenever an item is with the
\* consumer and when the fetch is over.
C15_BufferEmptyAtEnd ==
    gen = "fetch" =>
        /\ Len(cache_queue) <= 1
        /\ pc = "consumer" => cache_queue = <<>>
        /\ FetchOver => cache_queue = <<>>

\* C15 amended: in every state of a fetch the buffer holds at most one
\* Page; it is empty whenever an item is with the consumer, and when the
\* fetch is over unless it ended by a failed flush: the buffer then holds
\* the one Page of that flush.
C15_BufferBound ==
    gen = "fetch" =>
        /\ Len(cache_queue) <= 1
        /\ pc = "consumer" => cache_queue = <<>>
        /\ FetchOver =>
             cache_queue = IF exc = "CacheError" THEN << pages[Len(pages)] >>
                                                 ELSE <<>>

\* C15 witness: an item is with the consumer in a fetch that began with a
\* Page left in the buffer by an earlier flush that failed.
C15_Witness ==
    /\ gen = "fetch"
    /\ pc = "consumer"
    /\ queue0 # <<>>
    /\ cache_queue = <<>>
    /\ out # <<>>

\* C16 (run start-up ordering): a command built with a cache has invoked
\* exactly one of clean() and backup(), one built with no_cache neither;
\* when run is about to pick its generator no request has been made and the
\* Store is as that operation left it; during the run the backup is the
\* Store from before the run's first append (after clean(), that Store is
\* empty); with no_cache the run leaves the Store as it found it.
C16_SetupBeforeRun ==
    driver = "cmd" =>
        /\ cache => setup \in { << "clean" >>, << "backup" >> }
        /\ ~cache => setup = <<>>
        /\ pc = "ready" =>
             /\ urls = <<>> /\ pages = <<>>
             /\ setup = << "clean" >> => store = <<>>
             /\ setup = << "backup" >> => disk.backup = store
        /\ gen # "none" =>
             /\ setup = << "clean" >> => disk0.items = <<>>
             /\ setup = << "backup" >> => disk.backup = disk0.items
             /\ ~cache => disk = disk0

\* C16 witness: a run that backed up a non-empty Store has appended a Page
\* to it.
C16_Witness ==
    /\ driver = "cmd"
    /\ setup = << "backup" >>
    /\ gen = "fetch"
    /\ disk.backup # <<>>
    /\ Len(store) > Len(disk.backup)

\* C17 (replay is read-only): in every state of a fetch_from_cache call, no
\* request has been made, the Cache Queue is as the call found it, and,
\* until GitHubCommand.run rolls the Store back after a failure, the Store
\* and its backup are as the call found them; retrieve() is called only
\* when there is a cache.
C17_ReplayReadOnly ==
    gen = "replay" =>
        /\ urls = <<>> /\ auths = <<>> /\ bodies = <<>> /\ pages = <<>>
        /\ cache_queue = queue0
        /\ ~recovered => disk = disk0
        /\ retrieved => cache

\* C17 witness: a replay that found a Page in the Cache Queue and Pages in
\* the Store has run to its end, yielding items.
C17_Witness ==
    /\ gen = "replay"
    /\ result = "done"
    /\ retrieved
    /\ queue0 # <<>>
    /\ store # <<>>
    /\ out # <<>>

\* Position of the first Page of a sequence that json.loads rejects, 0 when
\* every Page decodes.
FirstUndecodable(ps) ==
    LET bad == { i \in 1..Len(ps) : ~Loads(ps[i]).ok }
    IN  IF bad = {} THEN 0
        ELSE CHOOSE i \in bad : \A j \in bad : i <= j

\* C18 (an undecodable Page is stored before the decode fails): when a
\* fetch with a cache has raised the decode error, and no roll-back has
\* followed, the Page that failed to decode is the last entry of the Store,
\* after the Pages fetched before it; and a fetch_from_cache over a Store
\* holding an undecodable Page, run until it returns or raises a decode
\* error, has yielded the items of the Pages before the first such Page
\* and raised the decode error, while over a Store without one it returns
\* having yielded every item.
C18_UndecodablePageStored ==
    /\ (gen = "fetch" /\ cache /\ exc = "ValueError" /\ ~recovered) =>
          /\ pages # <<>>
          /\ store = disk0.items \o pages
          /\ ~Loads(store[Len(store)]).ok
    /\ (gen = "replay" /\ cache /\ (result = "done" \/ exc = "ValueError")) =>
          LET bad == FirstUndecodable(disk0.items) IN
          IF bad = 0
            THEN /\ result = "done"
                 /\ exc = NoExc
                 /\ out = ItemsOf(disk0.items)
            ELSE /\ exc = "ValueError"
                 /\ out = ItemsOf(SubSeq(disk0.items, 1, bad - 1))

\* C18 witness: a replay by a caller of the library has yielded the items
\* of the first Page and failed at the second, which does not decode.
C18_Witness ==
    /\ gen = "replay"
    /\ driver = "lib"
    /\ exc = "ValueError"
    /\ out # <<>>
    /\ FirstUndecodable(store) = 2

\* The items a fetch has yielded, as the responses received and the place
\* reached in them determine it: every item of the Pages before the
\* current one, then the items of the current Page up to the one yielded
\* last.  Whether the backend has a cache plays no part.
StreamSoFar ==
    LET before == ItemsOf(SubSeq(pages, 1, Len(pages) - 1)) IN
    IF pc \in {"cache", "decode"} THEN before
    ELSE IF pc \in {"items", "consumer"}
      THEN before \o SubSeq(Loads(pages[Len(pages)]).items, 1, idx)
    ELSE ItemsOf(pages)

\* C19 (caching is transparent to the item stream): in a fetch whose Store
\* operations have all succeeded, with a cache or without, the requests
\* made and the items yielded are the same function of the responses
\* received: the first request is the one _get_issues_url gives, there is
\* one request per Page while a Page is being cached, decoded or yielded,
\* the items yielded are those StreamSoFar gives while the fetch runs, a
\* prefix of the items of the Pages once it is over, and all of them when
\* it returned.
C19_CachingTransparent ==
    (gen = "fetch" /\ exc # "CacheError") =>
        /\ urls # <<>> => urls[1] = IssuesUrl(from_date)
        /\ pc \in {"cache", "decode", "items", "consumer", "resume"} =>
             Len(urls) = Len(pages)
        /\ ~FetchOver => out = StreamSoFar
        /\ FetchOver => IsPrefix(out, ItemsOf(pages))
        /\ result = "done" => out = ItemsOf(pages)

\* C19 witness: a fetch on a backend with no cache has returned after two
\* Pages, having yielded the items of both.
C19_Witness ==
    /\ gen = "fetch"
    /\ ~cache
    /\ result = "done"
    /\ Len(pages) = 2
    /\ Len(out) >= 3
    /\ store = disk0.items

====
